---- MODULE Spec2Model ----
(***************************************************************************)
(* Authoritative simulation core of the multiplayer tag game server.       *)
(*                                                                         *)
(* Units.  Player positions, speeds, the player radius and portal radii    *)
(* are held in quarter pixels (3.75 px = 15), so that every position the   *)
(* server can compute from the sampled spawn points stays an integer.      *)
(* Viewport sizes are in pixels, as the clients send them.  Wall           *)
(* rectangles are held in thousandths of a pixel (w * 0.487 = 487 * w), so *)
(* that the fractional map layout is exact.  The arithmetic is the exact   *)
(* rational arithmetic of the source's formulas; IEEE rounding of the      *)
(* products is not modelled.                                               *)
(***************************************************************************)
EXTENDS Integers, Sequences, FiniteSets, TLC

\* ------------------------------------------------------------ constants

PLAYER_SIZE == 60
NORMAL_SPEED == 12
TAGGER_SPEED == 15
FREEZE_TIME == 5000
DEFAULT_WIDTH == 1920
DEFAULT_HEIGHT == 1080
maxAttempts == 100
PORTAL_RADIUS == 160

\* ------------------------------------------------------------ bounds

MaxJoins == 3
MaxTicks == 2
MaxRotations == 1
MaxClientEvents == 1
MaxEvents == 4

\* The bounds of the long runs: few players, more ticks.
LongJoins == 2
LongTicks == 3
LongRotations == 1
LongClientEvents == 1

\* The bounds of the runs from a drawn pair of players: the events handled
\* after it, and the positions (quarter pixels) and viewports drawn.
PairEvents == 1
PairXs == {1600, 3200, 3360}
PairYs == {400, 800, 1600}
PairViewports == {[w |-> 1920, h |-> 1080], [w |-> 960, h |-> 540],
                  [w |-> 1920, h |-> 150]}

\* Connection ids (socket.id): opaque, non-numeric strings.
IdSeq == <<"a", "b", "c", "d", "e">>
Ids == {IdSeq[i] : i \in 1..Len(IdSeq)}

\* Viewport sizes the clients report, in pixels.
Viewports == {[w |-> 960, h |-> 540], [w |-> 1920, h |-> 150]}

\* The payload of a join: a viewport, or 0 x 0 for a client that sends none.
JoinData == {[screenWidth |-> 0, screenHeight |-> 0]}

NoInput == [up |-> FALSE, down |-> FALSE, left |-> FALSE, right |-> FALSE]

\* Input vectors the clients send.
Inputs == {[up |-> FALSE, down |-> TRUE, left |-> FALSE, right |-> FALSE],
           [up |-> TRUE, down |-> FALSE, left |-> TRUE, right |-> FALSE]}

\* Math.random() values, as pairs (for x, for y) of eightieths.  On a
\* 1920 x 1080 viewport: Centre is (960, 540), inside a wall of every map
\* but Four Corners; Open is (444, 232), clear of every wall and portal;
\* Near is (465.5, 254), 30.8 px from Open, inside the top-left portal of
\* Teleport and inside a wall of Four Corners; Mid is (487, 540), inside a
\* wall of Plus.  On a 1920 x 150 viewport Mid is (487, 75), inside both
\* left portals of Teleport.
Centre == [rx |-> 40, ry |-> 40]
Open == [rx |-> 16, ry |-> 12]
Near == [rx |-> 17, ry |-> 14]
Mid == [rx |-> 18, ry |-> 40]
Samples == {Centre, Open, Near, Mid}

\* A random stream: draw k is `first` for k <= n and `rest` afterwards.
Stream(first, n, rest) == [first |-> first, n |-> n, rest |-> rest]

\* The streams Math.random() yields during one handler.
Streams == {Stream(Open, 1, Open), Stream(Near, 1, Near),
            Stream(Open, 1, Near), Stream(Mid, 1, Open),
            Stream(Centre, 1, Open), Stream(Centre, 99, Open),
            Stream(Centre, 100, Open)}

\* The streams of the long runs.
LongStreams == {Stream(Open, 1, Open), Stream(Near, 1, Near)}

\* Date.now() advances between two ticks by one of these (ms).
TickGaps == {5000, 5001}

\* ------------------------------------------------------------ helpers

Min(a, b) == IF a < b THEN a ELSE b
Max(a, b) == IF a > b THEN a ELSE b
Abs(a) == IF a < 0 THEN -a ELSE a

RECURSIVE Gcd(_, _)
Gcd(a, b) == IF b = 0 THEN a ELSE Gcd(b, a % b)

\* ------------------------------------------------------------ map catalog

MapKeys == <<"plus", "teleport", "corners", "arena">>

MapName(m) ==
    CASE m = "plus" -> "Plus"
      [] m = "teleport" -> "Teleport"
      [] m = "corners" -> "Four Corners"
      [] m = "arena" -> "Arena"

Rect(x, y, w, h) == [x |-> x, y |-> y, w |-> w, h |-> h]

\* maps[m].getWalls(w, h), in thousandths of a pixel.
getWalls(m, w, h) ==
    CASE m = "plus" ->
           << Rect(w * 240, h * 477, w * 520, h * 46),
              Rect(w * 487, h * 222, w * 26, h * 556) >>
      [] m = "teleport" ->
           << Rect(w * 487, h * 100, w * 26, h * 800) >>
      [] m = "corners" ->
           << Rect(w * 156, h * 231, w * 156, h * 46),
              Rect(w * 156, h * 231, w * 26, h * 278),
              Rect(w * 688, h * 231, w * 156, h * 46),
              Rect(w * 818, h * 231, w * 26, h * 278),
              Rect(w * 156, h * 722, w * 156, h * 46),
              Rect(w * 156, h * 491, w * 26, h * 278),
              Rect(w * 688, h * 722, w * 156, h * 46),
              Rect(w * 818, h * 491, w * 26, h * 278) >>
      [] m = "arena" ->
           << Rect(w * 448, h * 407, w * 104, h * 185),
              Rect(w * 208, h * 278, w * 52, h * 93),
              Rect(w * 740, h * 278, w * 52, h * 93),
              Rect(w * 208, h * 630, w * 52, h * 93),
              Rect(w * 740, h * 630, w * 52, h * 93) >>

\* Whether maps[m] has a getPortals generator (only the teleport map).
hasPortals(m) == m = "teleport"

\* maps.teleport.getPortals(w, h), in quarter pixels; target is the
\* 0-based index of the linked portal, as in the source.
getPortals(w, h) ==
    << [x |-> w, y |-> h, radius |-> PORTAL_RADIUS, target |-> 3],
       [x |-> 3 * w, y |-> h, radius |-> PORTAL_RADIUS, target |-> 2],
       [x |-> w, y |-> 3 * h, radius |-> PORTAL_RADIUS, target |-> 1],
       [x |-> 3 * w, y |-> 3 * h, radius |-> PORTAL_RADIUS, target |-> 0] >>

\* ------------------------------------------------------------ collision

\* The registry is a function from the registered ids to player records;
\* players[id] is undefined (falsy) for an id outside its domain.
getWallsForPlayer(ps, map, playerId) ==
    IF playerId \notin DOMAIN ps THEN << >>
    ELSE getWalls(map, ps[playerId].screenWidth, ps[playerId].screenHeight)

getPortalsForPlayer(ps, map, playerId) ==
    IF playerId \notin DOMAIN ps \/ ~hasPortals(map) THEN << >>
    ELSE getPortals(ps[playerId].screenWidth, ps[playerId].screenHeight)

\* The overlap test of one wall: x, y in quarter pixels (250 thousandths).
OverlapsWall(x, y, wall) ==
    /\ 250 * (x + PLAYER_SIZE) > wall.x
    /\ 250 * (x - PLAYER_SIZE) < wall.x + wall.w
    /\ 250 * (y + PLAYER_SIZE) > wall.y
    /\ 250 * (y - PLAYER_SIZE) < wall.y + wall.h

InAnyWall(x, y, walls) ==
    \E i \in 1..Len(walls) : OverlapsWall(x, y, walls[i])

checkWallCollision(ps, map, x, y, playerId) ==
    InAnyWall(x, y, getWallsForPlayer(ps, map, playerId))

\* ------------------------------------------------------------ spawn

\* Draw number k of a random stream.
Draw(rnd, k) == IF k <= rnd.n THEN rnd.first ELSE rnd.rest

\* Math.random() * (dimension - 200) + 100, in quarter pixels, for a
\* random value of r eightieths.
SampleCoord(r, dimension) == (4 * r * (dimension - 200)) \div 80 + 400

\* Faulty variant: the loop runs while attempts <= maxAttempts.
RECURSIVE SpawnLoopOneMore(_, _, _, _, _, _)
SpawnLoopOneMore(walls, screenWidth, screenHeight, rnd, used, attempts) ==
    IF /\ attempts <= maxAttempts
       /\ InAnyWall(SampleCoord(Draw(rnd, used + attempts).rx, screenWidth),
                    SampleCoord(Draw(rnd, used + attempts).ry, screenHeight),
                    walls)
    THEN SpawnLoopOneMore(walls, screenWidth, screenHeight, rnd, used,
                          attempts + 1)
    ELSE [x |-> SampleCoord(Draw(rnd, used + attempts).rx, screenWidth),
          y |-> SampleCoord(Draw(rnd, used + attempts).ry, screenHeight),
          attempts |-> attempts]

\* The do-while loop of findSafeSpawn from attempt number `attempts` on
\* (attempts already counts the draw being made); `used` draws of the
\* stream were consumed before this call.  walls is what
\* getWallsForPlayer(playerId) returns, which no iteration changes.
RECURSIVE SpawnLoop(_, _, _, _, _, _)
SpawnLoop(walls, screenWidth, screenHeight, rnd, used, attempts) ==
    IF /\ attempts < maxAttempts
       /\ InAnyWall(SampleCoord(Draw(rnd, used + attempts).rx, screenWidth),
                    SampleCoord(Draw(rnd, used + attempts).ry, screenHeight),
                    walls)
    THEN SpawnLoop(walls, screenWidth, screenHeight, rnd, used, attempts + 1)
    ELSE [x |-> SampleCoord(Draw(rnd, used + attempts).rx, screenWidth),
          y |-> SampleCoord(Draw(rnd, used + attempts).ry, screenHeight),
          attempts |-> attempts]

\* findSafeSpawn(playerId, screenWidth, screenHeight) on the registry ps
\* and the active map: the position, and (for the record) the number of
\* samples drawn, whether the centre fallback was taken, and the wall list
\* the collision test used.
findSafeSpawn(ps, map, playerId, screenWidth, screenHeight, rnd, used) ==
    LET Result(r, stuck, walls) ==
            [x |-> IF stuck THEN 2 * screenWidth ELSE r.x,
             y |-> IF stuck THEN 2 * screenHeight ELSE r.y,
             attempts |-> r.attempts,
             fallback |-> stuck,
             id |-> playerId,
             screenWidth |-> screenWidth,
             screenHeight |-> screenHeight,
             walls |-> walls]
        AfterLoop(r, walls) == Result(r, InAnyWall(r.x, r.y, walls), walls)
        Loop(walls) ==
            AfterLoop(SpawnLoop(walls, screenWidth, screenHeight, rnd, used, 1),
                      walls)
    IN  Loop(getWallsForPlayer(ps, map, playerId))

\* ------------------------------------------------------------ touching

\* Faulty variant: the distance is scaled by the first player's viewport.
checkCollisionOwnScale(p1, p2) ==
    LET gw == Gcd(p1.screenWidth, p2.screenWidth)
        gh == Gcd(p1.screenHeight, p2.screenHeight)
        a1 == p1.screenWidth \div gw
        a2 == p2.screenWidth \div gw
        b1 == p1.screenHeight \div gh
        b2 == p2.screenHeight \div gh
        nx == p1.x * a2 - p2.x * a1
        ny == p1.y * b2 - p2.y * b1
        lim == 2 * PLAYER_SIZE
    IN  /\ Abs(nx) < lim * a2
        /\ Abs(ny) < lim * b2
        /\ nx * nx * b2 * b2 + ny * ny * a2 * a2 < lim * lim * a2 * a2 * b2 * b2

\* checkCollision(p1, p2).  With g = gcd of the two widths, a1 = w1/g and
\* a2 = w2/g, the source's dx = (x1/w1 - x2/w2) * min(w1, w2) equals
\* (x1*a2 - x2*a1) / max(a1, a2); likewise dy.  distance < PLAYER_SIZE * 2
\* is compared on the squares, cross-multiplied by the denominators.
checkCollision(p1, p2) ==
    LET gw == Gcd(p1.screenWidth, p2.screenWidth)
        gh == Gcd(p1.screenHeight, p2.screenHeight)
        a1 == p1.screenWidth \div gw
        a2 == p2.screenWidth \div gw
        b1 == p1.screenHeight \div gh
        b2 == p2.screenHeight \div gh
        mw == Max(a1, a2)
        mh == Max(b1, b2)
        nx == p1.x * a2 - p2.x * a1
        ny == p1.y * b2 - p2.y * b1
        lim == 2 * PLAYER_SIZE
    IN  /\ Abs(nx) < lim * mw
        /\ Abs(ny) < lim * mh
        /\ nx * nx * mh * mh + ny * ny * mw * mw < lim * lim * mw * mw * mh * mh

\* ------------------------------------------------------------ portals

\* Whether the player record p is strictly within the radius of portal.
InPortal(p, portal) ==
    (p.x - portal.x) * (p.x - portal.x) + (p.y - portal.y) * (p.y - portal.y)
        < portal.radius * portal.radius

\* Faulty variant: the teleport lands on the entry portal.
RECURSIVE PortalLoopToEntry(_, _, _)
PortalLoopToEntry(p, portals, i) ==
    IF i > Len(portals) THEN p
    ELSE IF InPortal(p, portals[i])
         THEN [p EXCEPT !.x = portals[i].x, !.y = portals[i].y]
         ELSE PortalLoopToEntry(p, portals, i + 1)

\* The for loop of checkPortalCollision from index i (1-based) on.
RECURSIVE PortalLoop(_, _, _)
PortalLoop(p, portals, i) ==
    IF i > Len(portals) THEN p
    ELSE IF InPortal(p, portals[i])
         THEN LET targetPortal == portals[portals[i].target + 1]
              IN  [p EXCEPT !.x = targetPortal.x, !.y = targetPortal.y]
         ELSE PortalLoop(p, portals, i + 1)

\* Faulty variant: the check is skipped for a player standing exactly on
\* a portal's centre.
PortalCheckOffCentre(ps, map, id, p) ==
    IF ~hasPortals(map) THEN p
    ELSE IF \E i \in 1..Len(getPortalsForPlayer(ps, map, id)) :
               /\ getPortalsForPlayer(ps, map, id)[i].x = p.x
               /\ getPortalsForPlayer(ps, map, id)[i].y = p.y
         THEN p
         ELSE PortalLoop(p, getPortalsForPlayer(ps, map, id), 1)

\* checkPortalCollision(player) for the player record p of id `id`.
checkPortalCollision(ps, map, id, p) ==
    IF ~hasPortals(map) THEN p
    ELSE PortalLoop(p, getPortalsForPlayer(ps, map, id), 1)

\* ------------------------------------------------------------ state

VARIABLES
    order,      \* the keys of `players` in insertion order (for-in order)
    players,    \* the registry: id -> player record
    currentMap, \* the key of the active map
    clock,      \* Date.now() at the latest tick, in ms since server start
    count,      \* how many events of each kind have been handled
    lastEvent,  \* the event handled last
    spawnLog,   \* the findSafeSpawn calls of the last event, in call order
    stepped,    \* id -> position before the portal check of the last tick
    moved,      \* the registry after the update loop of the last tick
    tagLog,     \* the tags of the last tick, in the order they happened
    ported,     \* id -> whether the player resized its viewport since, for
                \* the players a portal teleported since the last rotation
    scope       \* the event budgets and random streams of the run

vars == <<order, players, currentMap, clock, count, lastEvent, spawnLog,
          stepped, moved, tagLog, ported, scope>>

NoPlayers == [id \in {} |-> 0]

\* The events handled so far.
Handled == count.joins + count.ticks + count.rotations + count.client

Event(kind, id) ==
    [kind |-> kind, id |-> id, known |-> id \in DOMAIN players,
     wasTagger |-> IF id \in DOMAIN players THEN players[id].isTagger ELSE FALSE]

Init ==
    /\ order = << >>
    /\ players = NoPlayers
    /\ currentMap = "plus"
    /\ clock = 0
    /\ count = [joins |-> 0, ticks |-> 0, rotations |-> 0, client |-> 0]
    /\ lastEvent = [kind |-> "start", id |-> "-", known |-> FALSE,
                    wasTagger |-> FALSE]
    /\ spawnLog = << >>
    /\ stepped = NoPlayers
    /\ moved = NoPlayers
    /\ tagLog = << >>
    /\ ported = NoPlayers
    /\ scope = [joins |-> MaxJoins, ticks |-> MaxTicks,
                rotations |-> MaxRotations, client |-> MaxClientEvents,
                events |-> MaxEvents, streams |-> Streams]

\* The random streams that differ in a draw that findSafeSpawn makes for
\* player id: when the first sample is kept, the later draws are not read.
SpawnStreams(ps, map, id, screenWidth, screenHeight) ==
    {r \in scope.streams :
        \/ checkWallCollision(ps, map, SampleCoord(r.first.rx, screenWidth),
                              SampleCoord(r.first.ry, screenHeight), id)
        \/ r = CHOOSE q \in scope.streams : q.first = r.first}

\* ------------------------------------------------------------ join

\* Faulty variant: a joiner is the tagger whenever at most one player is present.
NewPlayerTaggerIfAlone(ps, map, id, isFirstPlayer, screenWidth, screenHeight, spawnPos) ==
    [x |-> spawnPos.x,
     y |-> spawnPos.y,
     isTagger |-> Cardinality(DOMAIN ps) <= 1,
     frozen |-> FALSE,
     frozenUntil |-> 0,
     input |-> NoInput,
     screenWidth |-> screenWidth,
     screenHeight |-> screenHeight,
     map |-> MapName(map),
     walls |-> getWallsForPlayer(ps, map, id)]

\* The player record that the join handler stores.
NewPlayer(ps, map, id, isFirstPlayer, screenWidth, screenHeight, spawnPos) ==
    [x |-> spawnPos.x,
     y |-> spawnPos.y,
     isTagger |-> isFirstPlayer,
     frozen |-> FALSE,
     frozenUntil |-> 0,
     input |-> NoInput,
     screenWidth |-> screenWidth,
     screenHeight |-> screenHeight,
     map |-> MapName(map),
     walls |-> getWallsForPlayer(ps, map, id)]

\* players[id] = rec: a new key goes to the end of the key order, an
\* existing key keeps its place.
Store(ps, id, rec) == [q \in DOMAIN ps \cup {id} |-> IF q = id THEN rec ELSE ps[q]]

KeysAfterStore(ord, id) ==
    IF \E i \in 1..Len(ord) : ord[i] = id THEN ord ELSE Append(ord, id)

\* The spawn position the join handler asks for.
JoinSpawn(ps, map, id, screenWidth, screenHeight, rnd) ==
    findSafeSpawn(ps, map, id, screenWidth, screenHeight, rnd, 0)

Join(id, data) ==
    /\ count.joins < scope.joins /\ Handled < scope.events
    /\ LET screenWidth == IF data.screenWidth = 0 THEN DEFAULT_WIDTH
                          ELSE data.screenWidth
           screenHeight == IF data.screenHeight = 0 THEN DEFAULT_HEIGHT
                           ELSE data.screenHeight
           isFirstPlayer == Len(order) = 0
       IN  \E rnd \in SpawnStreams(players, currentMap, id, screenWidth, screenHeight) :
             LET Stored(spawnPos) ==
                     /\ players' = Store(players, id,
                                         NewPlayer(players, currentMap, id,
                                                   isFirstPlayer, screenWidth,
                                                   screenHeight, spawnPos))
                     /\ order' = KeysAfterStore(order, id)
                     /\ spawnLog' = << spawnPos >>
             IN  Stored(JoinSpawn(players, currentMap, id, screenWidth,
                                  screenHeight, rnd))
    /\ count' = [count EXCEPT !.joins = @ + 1]
    /\ lastEvent' = Event("join", id)
    /\ stepped' = NoPlayers
    /\ moved' = NoPlayers
    /\ tagLog' = << >>
    /\ ported' = [q \in DOMAIN ported \ {id} |-> ported[q]]
    /\ UNCHANGED <<currentMap, clock, scope>>

\* ------------------------------------------------------------ screenSize

\* The registry after the screenSize handler for a registered id, and the
\* findSafeSpawn calls it made.
Resize(ps, map, id, data, rnd) ==
    LET Respawned(sized, spawnPos) ==
            [ps |-> [sized EXCEPT ![id].x = spawnPos.x, ![id].y = spawnPos.y],
             log |-> << spawnPos >>]
        Sized(sized) ==
            IF checkWallCollision(sized, map, sized[id].x, sized[id].y, id)
            THEN Respawned(sized, findSafeSpawn(sized, map, id, data.w, data.h,
                                                rnd, 0))
            ELSE [ps |-> sized, log |-> << >>]
    IN  Sized([ps EXCEPT ![id].screenWidth = data.w, ![id].screenHeight = data.h])

ResizeStreams(ps, map, id, data) ==
    LET sized == [ps EXCEPT ![id].screenWidth = data.w, ![id].screenHeight = data.h]
    IN  IF checkWallCollision(sized, map, sized[id].x, sized[id].y, id)
        THEN SpawnStreams(sized, map, id, data.w, data.h)
        ELSE {CHOOSE q \in scope.streams : TRUE}

ScreenSize(id, data) ==
    /\ count.client < scope.client /\ Handled < scope.events
    /\ IF id \in DOMAIN players
       THEN \E rnd \in ResizeStreams(players, currentMap, id, data) :
              LET Resized(r) == players' = r.ps /\ spawnLog' = r.log
              IN  Resized(Resize(players, currentMap, id, data, rnd))
       ELSE /\ players' = players
            /\ spawnLog' = << >>
    /\ count' = [count EXCEPT !.client = @ + 1]
    /\ lastEvent' = Event("screenSize", id)
    /\ stepped' = NoPlayers
    /\ moved' = NoPlayers
    /\ tagLog' = << >>
    /\ ported' = [q \in DOMAIN ported |-> ported[q] \/ q = id]
    /\ UNCHANGED <<order, currentMap, clock, scope>>

\* ------------------------------------------------------------ input

\* Faulty variant: the handler stores the input without looking the player up.
SetInputUnchecked(ps, id, input) ==
    [q \in DOMAIN ps \cup {id} |->
        IF q = id THEN [input |-> input] ELSE ps[q]]

\* The registry after the input handler.
SetInput(ps, id, input) ==
    IF id \in DOMAIN ps THEN [ps EXCEPT ![id].input = input] ELSE ps

Input(id, input) ==
    /\ count.client < scope.client /\ Handled < scope.events
    /\ players' = SetInput(players, id, input)
    /\ count' = [count EXCEPT !.client = @ + 1]
    /\ lastEvent' = Event("input", id)
    /\ spawnLog' = << >>
    /\ stepped' = NoPlayers
    /\ moved' = NoPlayers
    /\ tagLog' = << >>
    /\ UNCHANGED <<order, currentMap, clock, ported, scope>>

\* ------------------------------------------------------------ disconnect

\* delete players[id]
Delete(ps, id) == [q \in DOMAIN ps \ {id} |-> ps[q]]

KeysAfterDelete(ord, id) == SelectSeq(ord, LAMBDA q : q # id)

\* Faulty variant: the reassignment forgets to clear the freeze.
MakeTaggerStillFrozen(p) == [p EXCEPT !.isTagger = TRUE]

\* The new tagger's record after reassignment.
MakeTagger(p) == [p EXCEPT !.isTagger = TRUE, !.frozen = FALSE]

\* The registry after the disconnect handler for a registered id, when
\* Math.random() picks index k (1-based) of the remaining keys.
Leave(ps, ord, id, k) ==
    LET rest == Delete(ps, id)
        playerIds == KeysAfterDelete(ord, id)
    IN  IF ps[id].isTagger /\ Len(playerIds) > 0
        THEN [rest EXCEPT ![playerIds[k]] = MakeTagger(@)]
        ELSE rest

Disconnect(id) ==
    /\ count.client < scope.client /\ Handled < scope.events
    /\ IF id \in DOMAIN players
       THEN /\ \E k \in 1..Max(1, Len(order) - 1) :
                 players' = Leave(players, order, id, k)
            /\ order' = KeysAfterDelete(order, id)
       ELSE UNCHANGED <<players, order>>
    /\ count' = [count EXCEPT !.client = @ + 1]
    /\ lastEvent' = Event("disconnect", id)
    /\ spawnLog' = << >>
    /\ stepped' = NoPlayers
    /\ moved' = NoPlayers
    /\ tagLog' = << >>
    /\ ported' = Delete(ported, id)
    /\ UNCHANGED <<currentMap, clock, scope>>

\* ------------------------------------------------------------ game loop

\* Faulty variant: the unfreeze check never fires.
ThawNever(p, now) == p

\* The unfreeze check of one iteration of the update loop.
Thaw(p, now) ==
    IF p.frozen /\ now > p.frozenUntil THEN [p EXCEPT !.frozen = FALSE] ELSE p

\* Faulty variant: the candidate is taken without the wall check.
StepThroughWalls(ps, map, id, p) ==
    LET speed == IF p.isTagger THEN TAGGER_SPEED ELSE NORMAL_SPEED
        y1 == IF p.input.up THEN p.y - speed ELSE p.y
        y2 == IF p.input.down THEN y1 + speed ELSE y1
        x1 == IF p.input.left THEN p.x - speed ELSE p.x
        x2 == IF p.input.right THEN x1 + speed ELSE x1
    IN  [p EXCEPT !.x = Max(PLAYER_SIZE,
                            Min(4 * p.screenWidth - PLAYER_SIZE, x2)),
                  !.y = Max(PLAYER_SIZE,
                            Min(4 * p.screenHeight - PLAYER_SIZE, y2))]

\* The movement of one iteration: input, boundary clamp, wall check.
Step(ps, map, id, p) ==
    LET speed == IF p.isTagger THEN TAGGER_SPEED ELSE NORMAL_SPEED
        y1 == IF p.input.up THEN p.y - speed ELSE p.y
        y2 == IF p.input.down THEN y1 + speed ELSE y1
        x1 == IF p.input.left THEN p.x - speed ELSE p.x
        x2 == IF p.input.right THEN x1 + speed ELSE x1
        newX == Max(PLAYER_SIZE, Min(4 * p.screenWidth - PLAYER_SIZE, x2))
        newY == Max(PLAYER_SIZE, Min(4 * p.screenHeight - PLAYER_SIZE, y2))
    IN  IF ~checkWallCollision(ps, map, newX, newY, id)
        THEN [p EXCEPT !.x = newX, !.y = newY]
        ELSE p

\* The map info update that ends one iteration.
Refresh(ps, map, id, p) ==
    [p EXCEPT !.map = MapName(map), !.walls = getWallsForPlayer(ps, map, id)]

\* Faulty variant: the loop moves frozen players too.
RECURSIVE UpdateLoopMovesFrozen(_, _, _, _, _)
UpdateLoopMovesFrozen(st, ord, map, now, i) ==
    IF i > Len(ord) THEN st
    ELSE
      LET id == ord[i]
          Moved(p) ==
              UpdateLoopMovesFrozen(
                [ps |-> [st.ps EXCEPT ![id] =
                           Refresh(st.ps, map, id,
                                   checkPortalCollision(st.ps, map, id, p))],
                 stepped |-> Store(st.stepped, id, [x |-> p.x, y |-> p.y])],
                ord, map, now, i + 1)
      IN  Moved(Step(st.ps, map, id, Thaw(st.ps[id], now)))

\* The update loop over the registry, from key number i on.  st is
\* [ps |-> registry, stepped |-> positions before the portal check].
RECURSIVE UpdateLoop(_, _, _, _, _)
UpdateLoop(st, ord, map, now, i) ==
    IF i > Len(ord) THEN st
    ELSE
      LET id == ord[i]
          Moved(p) ==
              UpdateLoop(
                [ps |-> [st.ps EXCEPT ![id] =
                           Refresh(st.ps, map, id,
                                   checkPortalCollision(st.ps, map, id, p))],
                 stepped |-> Store(st.stepped, id, [x |-> p.x, y |-> p.y])],
                ord, map, now, i + 1)
          Thawed(p) ==
              IF p.frozen
              THEN UpdateLoop([st EXCEPT !.ps[id] = p], ord, map, now, i + 1)
              ELSE Moved(Step(st.ps, map, id, p))
      IN  Thawed(Thaw(st.ps[id], now))

\* Whether `other` can be tagged by `tagger`.
CanTag(tagger, other) ==
    ~other.isTagger /\ ~other.frozen /\ checkCollision(tagger, other)

\* Faulty variant: the freeze ends at the tick's own timestamp.
SwapNoFreezeTime(ps, id, otherId, now) ==
    [ps EXCEPT ![id].isTagger = FALSE,
               ![id].frozen = TRUE,
               ![id].frozenUntil = now,
               ![otherId].isTagger = TRUE,
               ![otherId].frozen = FALSE]

\* Faulty variant: the former tagger is frozen but keeps the tagger role.
SwapKeepsTagger(ps, id, otherId, now) ==
    [ps EXCEPT ![id].frozen = TRUE,
               ![id].frozenUntil = now + FREEZE_TIME,
               ![otherId].isTagger = TRUE,
               ![otherId].frozen = FALSE]

\* The role swap of a successful tag.
Swap(ps, id, otherId, now) ==
    [ps EXCEPT ![id].isTagger = FALSE,
               ![id].frozen = TRUE,
               ![id].frozenUntil = now + FREEZE_TIME,
               ![otherId].isTagger = TRUE,
               ![otherId].frozen = FALSE]

\* Faulty variant: the inner loop without its break.
RECURSIVE ScanOthersNoBreak(_, _, _, _, _)
ScanOthersNoBreak(st, ord, id, now, j) ==
    IF j > Len(ord) THEN st
    ELSE IF ord[j] = id THEN ScanOthersNoBreak(st, ord, id, now, j + 1)
    ELSE IF CanTag(st.ps[id], st.ps[ord[j]])
         THEN ScanOthersNoBreak(
                [ps |-> Swap(st.ps, id, ord[j], now),
                 log |-> Append(st.log, [tagger |-> id, other |-> ord[j],
                                         before |-> st.ps])],
                ord, id, now, j + 1)
         ELSE ScanOthersNoBreak(st, ord, id, now, j + 1)

\* The inner loop of tag detection for tagger id, from key number j on.
\* st is [ps |-> registry, log |-> tags so far].
RECURSIVE ScanOthers(_, _, _, _, _)
ScanOthers(st, ord, id, now, j) ==
    IF j > Len(ord) THEN st
    ELSE IF ord[j] = id THEN ScanOthers(st, ord, id, now, j + 1)
    ELSE IF CanTag(st.ps[id], st.ps[ord[j]])
         THEN [ps |-> Swap(st.ps, id, ord[j], now),
               log |-> Append(st.log, [tagger |-> id, other |-> ord[j],
                                       before |-> st.ps])]
         ELSE ScanOthers(st, ord, id, now, j + 1)

\* The outer loop of tag detection, from key number i on.
RECURSIVE TagLoop(_, _, _, _)
TagLoop(st, ord, now, i) ==
    IF i > Len(ord) THEN st
    ELSE IF ~st.ps[ord[i]].isTagger \/ st.ps[ord[i]].frozen
         THEN TagLoop(st, ord, now, i + 1)
         ELSE TagLoop(ScanOthers(st, ord, ord[i], now, 1), ord, now, i + 1)

\* The players a portal has teleported, after an update loop that
\* produced `updated`: the check moved those whose position it changed.
Ported(old, updated) ==
    LET now == {id \in DOMAIN updated.stepped :
                    \/ updated.ps[id].x # updated.stepped[id].x
                    \/ updated.ps[id].y # updated.stepped[id].y}
    IN  [id \in DOMAIN old \cup now |-> IF id \in now THEN FALSE ELSE old[id]]

Tick(gap) ==
    /\ count.ticks < scope.ticks /\ Handled < scope.events
    /\ LET now == clock + gap
           Tagged(updated, tagged) ==
               /\ clock' = now
               /\ stepped' = updated.stepped
               /\ moved' = updated.ps
               /\ players' = tagged.ps
               /\ tagLog' = tagged.log
               /\ ported' = Ported(ported, updated)
           Updated(updated) ==
               Tagged(updated,
                      TagLoop([ps |-> updated.ps, log |-> << >>], order, now, 1))
       IN  Updated(UpdateLoop([ps |-> players, stepped |-> NoPlayers], order,
                              currentMap, now, 1))
    /\ count' = [count EXCEPT !.ticks = @ + 1]
    /\ lastEvent' = Event("tick", "-")
    /\ spawnLog' = << >>
    /\ UNCHANGED <<order, currentMap, scope>>

\* ------------------------------------------------------------ map rotation

\* Faulty variant: the rotation takes its first draw, the current map included.
NewMapsAny(map) == {MapKeys[i] : i \in 1..Len(MapKeys)}

\* The maps the do-while loop of the rotation can end on.
NewMaps(map) == {MapKeys[i] : i \in {j \in 1..Len(MapKeys) : MapKeys[j] # map}}

\* Faulty variant: the repositioning also unfreezes the player.
RECURSIVE RespawnLoopThaws(_, _, _, _, _)
RespawnLoopThaws(st, ord, map, rnd, i) ==
    IF i > Len(ord) THEN st
    ELSE LET id == ord[i]
             Placed(spawnPos) ==
                 RespawnLoopThaws([ps |-> [st.ps EXCEPT ![id].x = spawnPos.x,
                                                        ![id].y = spawnPos.y,
                                                        ![id].frozen = FALSE],
                                   log |-> Append(st.log, spawnPos),
                                   used |-> st.used + spawnPos.attempts],
                                  ord, map, rnd, i + 1)
         IN  Placed(findSafeSpawn(st.ps, map, id, st.ps[id].screenWidth,
                                  st.ps[id].screenHeight, rnd, st.used))

\* The repositioning loop, from key number i on.  st is
\* [ps |-> registry, log |-> findSafeSpawn calls so far, used |-> draws taken].
RECURSIVE RespawnLoop(_, _, _, _, _)
RespawnLoop(st, ord, map, rnd, i) ==
    IF i > Len(ord) THEN st
    ELSE LET id == ord[i]
             Placed(spawnPos) ==
                 RespawnLoop([ps |-> [st.ps EXCEPT ![id].x = spawnPos.x,
                                                   ![id].y = spawnPos.y],
                              log |-> Append(st.log, spawnPos),
                              used |-> st.used + spawnPos.attempts],
                             ord, map, rnd, i + 1)
         IN  Placed(findSafeSpawn(st.ps, map, id, st.ps[id].screenWidth,
                                  st.ps[id].screenHeight, rnd, st.used))

Rotate(newMap, rnd) ==
    /\ count.rotations < scope.rotations /\ Handled < scope.events
    /\ LET Respawned(r) ==
               /\ currentMap' = newMap
               /\ players' = r.ps
               /\ spawnLog' = r.log
       IN  Respawned(RespawnLoop([ps |-> players, log |-> << >>, used |-> 0],
                                 order, newMap, rnd, 1))
    /\ count' = [count EXCEPT !.rotations = @ + 1]
    /\ lastEvent' = Event("rotate", "-")
    /\ stepped' = NoPlayers
    /\ moved' = NoPlayers
    /\ tagLog' = << >>
    /\ ported' = NoPlayers
    /\ UNCHANGED <<order, clock, scope>>

\* ------------------------------------------------------------ specification

\* The server only tests ids for equality, so the connections that are
\* not registered are interchangeable: the least of them stands for all.
NewId ==
    IdSeq[CHOOSE i \in 1..Len(IdSeq) :
            /\ IdSeq[i] \notin DOMAIN players
            /\ \A j \in 1..(i - 1) : IdSeq[j] \in DOMAIN players]

\* The connections an event can come from.
Senders == DOMAIN players \cup {NewId}

Next ==
    \/ \E id \in Senders, data \in JoinData : Join(id, data)
    \/ \E id \in Senders, data \in Viewports : ScreenSize(id, data)
    \/ \E id \in Senders, input \in Inputs : Input(id, input)
    \/ \E id \in Senders : Disconnect(id)
    \/ \E gap \in TickGaps : Tick(gap)
    \/ \E newMap \in NewMaps(currentMap), rnd \in scope.streams : Rotate(newMap, rnd)

Spec == Init /\ [][Next]_vars

\* The state after construction, for a run with budgets and streams sc.
Started(sc) ==
    /\ order = << >>
    /\ players = NoPlayers
    /\ currentMap = "plus"
    /\ clock = 0
    /\ count = [joins |-> 0, ticks |-> 0, rotations |-> 0, client |-> 0]
    /\ lastEvent = [kind |-> "start", id |-> "-", known |-> FALSE,
                    wasTagger |-> FALSE]
    /\ spawnLog = << >>
    /\ stepped = NoPlayers
    /\ moved = NoPlayers
    /\ tagLog = << >>
    /\ ported = NoPlayers
    /\ scope = sc

\* The budgets of the long runs: room for every event the per-kind
\* budgets allow.
LongScope(streams) ==
    [joins |-> LongJoins, ticks |-> LongTicks, rotations |-> LongRotations,
     client |-> LongClientEvents,
     events |-> LongJoins + LongTicks + LongRotations + LongClientEvents,
     streams |-> streams]

\* The long runs: two connections at most and fewer random streams.
LongInit == Started(LongScope(LongStreams))

LongSpec == LongInit /\ [][Next]_vars

\* A step of the game loop, told by its counter: of the actions of Next
\* only Tick raises count.ticks, and Tick can fire exactly when its budget
\* guard holds.
TickCounted ==
    /\ count.ticks < scope.ticks /\ Handled < scope.events
    /\ count' = [count EXCEPT !.ticks = @ + 1]

\* The game loop is a setInterval timer: a tick that can fire does.
FairSpec == LongSpec /\ WF_count(TickCounted)

\* A player record at (x, y) on viewport v, as the join, screenSize and
\* movement handlers leave it on map `map`.
PairPlayer(map, x, y, v, isTagger) ==
    [x |-> x,
     y |-> y,
     isTagger |-> isTagger,
     frozen |-> FALSE,
     frozenUntil |-> 0,
     input |-> NoInput,
     screenWidth |-> v.w,
     screenHeight |-> v.h,
     map |-> MapName(map),
     walls |-> getWalls(map, v.w, v.h)]

\* The records a player can have: inside its viewport and clear of its
\* walls.
PairPlayers(map, isTagger) ==
    {p \in {PairPlayer(map, x, y, v, isTagger) :
                x \in PairXs, y \in PairYs, v \in PairViewports} :
        /\ p.x <= 4 * p.screenWidth - PLAYER_SIZE
        /\ p.y <= 4 * p.screenHeight - PLAYER_SIZE
        /\ ~InAnyWall(p.x, p.y, p.walls)}

\* Two registered players, one of them the tagger, with positions and
\* viewports drawn independently; PairEvents events follow.
PairInit ==
    /\ order = <<IdSeq[1], IdSeq[2]>>
    /\ currentMap = "plus"
    /\ \E first \in BOOLEAN :
          \E p1 \in PairPlayers(currentMap, first),
             p2 \in PairPlayers(currentMap, ~first) :
              players = [id \in {IdSeq[1], IdSeq[2]} |->
                            IF id = IdSeq[1] THEN p1 ELSE p2]
    /\ clock = 0
    /\ count = [joins |-> 0, ticks |-> 0, rotations |-> 0, client |-> 0]
    /\ lastEvent = [kind |-> "start", id |-> "-", known |-> FALSE,
                    wasTagger |-> FALSE]
    /\ spawnLog = << >>
    /\ stepped = NoPlayers
    /\ moved = NoPlayers
    /\ tagLog = << >>
    /\ ported = NoPlayers
    /\ scope = [joins |-> PairEvents, ticks |-> PairEvents,
                rotations |-> PairEvents, client |-> PairEvents,
                events |-> PairEvents, streams |-> LongStreams]

PairSpec == PairInit /\ [][Next]_vars

\* ------------------------------------------------------------ claims

Taggers(ps) == {id \in DOMAIN ps : ps[id].isTagger}

\* C1: whenever the registry is non-empty, exactly one registered player
\* is the tagger.
C1_ExactlyOneTagger ==
    order # << >> => Cardinality(Taggers(players)) = 1

\* Whether player id of the registry stands at the centre of its viewport.
AtCentre(ps, id) ==
    ps[id].x = 2 * ps[id].screenWidth /\ ps[id].y = 2 * ps[id].screenHeight

\* C2: after a join the new player overlaps no wall of the active map
\* scaled to its viewport, unless findSafeSpawn used up its 100 attempts
\* and fell back to the viewport centre.
C2_JoinSpawnsClearOfWalls ==
    lastEvent.kind = "join" =>
        \/ ~checkWallCollision(players, currentMap, players[lastEvent.id].x,
                               players[lastEvent.id].y, lastEvent.id)
        \/ /\ spawnLog[1].attempts = maxAttempts
           /\ AtCentre(players, lastEvent.id)

\* C3: a disconnect of the tagger that leaves players behind leaves exactly
\* one tagger, who is not frozen; a disconnect of a non-tagger changes no
\* remaining player's isTagger or frozen.
C3_DisconnectReassignsTagger ==
    [][(lastEvent'.kind = "disconnect" /\ lastEvent'.known) =>
          IF lastEvent'.wasTagger
          THEN order' # << >> =>
                  /\ Cardinality(Taggers(players')) = 1
                  /\ \A id \in Taggers(players') : ~players'[id].frozen
          ELSE \A id \in DOMAIN players' :
                  /\ players'[id].isTagger = players[id].isTagger
                  /\ players'[id].frozen = players[id].frozen]_vars

\* C3 witness: the tagger left and the player made tagger was in the
\* middle of a freeze (its frozenUntil is still ahead of the clock).
C3_Witness ==
    /\ lastEvent.kind = "disconnect" /\ lastEvent.known /\ lastEvent.wasTagger
    /\ \E id \in DOMAIN players :
          /\ players[id].isTagger /\ ~players[id].frozen
          /\ players[id].frozenUntil > clock

\* The key numbers of the players that tag e's tagger could tag when its
\* scan began.
Candidates(e) ==
    {k \in 1..Len(order) :
        /\ order[k] # e.tagger
        /\ ~e.before[order[k]].isTagger
        /\ ~e.before[order[k]].frozen
        /\ checkCollision(e.before[e.tagger], e.before[order[k]])}

\* C4: in one tick's tag detection an unfrozen tagger tags at most one
\* player, the first in registry order that is untagged, unfrozen and
\* touching.
C4_OneTagFirstMatch ==
    \A i \in 1..Len(tagLog) :
        /\ \A j \in 1..Len(tagLog) : tagLog[j].tagger = tagLog[i].tagger => j = i
        /\ tagLog[i].before[tagLog[i].tagger].isTagger
        /\ ~tagLog[i].before[tagLog[i].tagger].frozen
        /\ Candidates(tagLog[i]) # {}
        /\ \A k \in Candidates(tagLog[i]) :
              order[k] = tagLog[i].other
              \/ \E l \in Candidates(tagLog[i]) : l < k

\* C4 witness: a tag was made while two candidates were touching the tagger.
C4_Witness ==
    \E i \in 1..Len(tagLog) : Cardinality(Candidates(tagLog[i])) >= 2

\* The registry right after tag number i of the last tick.
AfterTag(i) == IF i < Len(tagLog) THEN tagLog[i + 1].before ELSE players

\* Whether an unfrozen tagger and an untagged, unfrozen player touch in ps.
SomeoneTaggable(ps) ==
    \E t \in DOMAIN ps, o \in DOMAIN ps :
        /\ t # o
        /\ ps[t].isTagger /\ ~ps[t].frozen
        /\ ~ps[o].isTagger /\ ~ps[o].frozen
        /\ checkCollision(ps[t], ps[o])

\* What a tick's tags do to the former taggers, and when a tick tags.
TagFreezesTagger ==
    /\ \A i \in 1..Len(tagLog) :
          /\ ~players[tagLog[i].tagger].isTagger
          /\ players[tagLog[i].tagger].frozen
          /\ players[tagLog[i].tagger].frozenUntil = clock + FREEZE_TIME
    /\ lastEvent.kind = "tick" => (SomeoneTaggable(moved) <=> tagLog # << >>)

PortalHits(id) ==
    {i \in 1..4 :
        LET q == getPortals(moved[id].screenWidth, moved[id].screenHeight)[i]
            dx == stepped[id].x - q.x
            dy == stepped[id].y - q.y
        IN  dx * dx + dy * dy < q.radius * q.radius}

FirstHit(id) == CHOOSE i \in PortalHits(id) : \A j \in PortalHits(id) : i <= j

\* C7: a player whose finalized position is within a portal of its own
\* list ends the update at the target of the first such portal, and no
\* other portal is applied; without portals the position is unchanged.
C7_PortalGoesToTarget ==
    \A id \in DOMAIN stepped :
        IF currentMap = "teleport" /\ PortalHits(id) # {}
        THEN LET portals == getPortals(moved[id].screenWidth,
                                       moved[id].screenHeight)
                 target == portals[portals[FirstHit(id)].target + 1]
             IN  moved[id].x = target.x /\ moved[id].y = target.y
        ELSE moved[id].x = stepped[id].x /\ moved[id].y = stepped[id].y

\* C7 witness: a player stood within two portals at once and was teleported.
C7_Witness ==
    \E id \in DOMAIN stepped :
        /\ currentMap = "teleport"
        /\ Cardinality(PortalHits(id)) >= 2
        /\ moved[id].x # stepped[id].x

\* C8: a join makes the player tagger exactly when the registry was empty
\* just before, and never frozen.
C8_JoinTaggerIffEmpty ==
    [][lastEvent'.kind = "join" =>
          /\ players'[lastEvent'.id].isTagger <=> (order = << >>)
          /\ ~players'[lastEvent'.id].frozen]_vars

\* C8 witness: the second join finds the registry emptied by a disconnect
\* and its player becomes the tagger.
C8_Witness ==
    /\ lastEvent.kind = "join" /\ ~lastEvent.known
    /\ count.joins = 2 /\ count.client = 1
    /\ Len(order) = 1
    /\ players[lastEvent.id].isTagger

\* C9: an input, screenSize or disconnect for an id that is not registered
\* changes nothing of the registry or the active map.
C9_UnknownIdIgnored ==
    [][(lastEvent'.kind \in {"input", "screenSize", "disconnect"}
        /\ ~lastEvent'.known) =>
          UNCHANGED <<order, players, currentMap>>]_vars

\* C9 witness: such an event arrived while other players were registered.
C9_Witness ==
    /\ lastEvent.kind \in {"input", "screenSize", "disconnect"}
    /\ ~lastEvent.known
    /\ Len(order) >= 2

\* C10: findSafeSpawn samples at most 100 positions and returns one that
\* hits no wall of the list its collision test used, or the viewport centre.
C10_SpawnBounded ==
    \A k \in 1..Len(spawnLog) :
        /\ spawnLog[k].attempts <= maxAttempts
        /\ \/ ~InAnyWall(spawnLog[k].x, spawnLog[k].y, spawnLog[k].walls)
           \/ /\ spawnLog[k].x = 2 * spawnLog[k].screenWidth
              /\ spawnLog[k].y = 2 * spawnLog[k].screenHeight

\* C10 witness: one call whose 100 samples all hit a wall and that returned
\* the centre, and one call that kept its 100th sample.
C10_Witness ==
    /\ \E k \in 1..Len(spawnLog) :
          /\ spawnLog[k].attempts = maxAttempts
          /\ spawnLog[k].x = 2 * spawnLog[k].screenWidth
          /\ InAnyWall(spawnLog[k].x, spawnLog[k].y, spawnLog[k].walls)
    /\ \E k \in 1..Len(spawnLog) :
          /\ spawnLog[k].attempts = maxAttempts
          /\ ~spawnLog[k].fallback

\* C11: a tick with timestamp now unfreezes every frozen player with
\* now >= frozenUntil, the boundary now = frozenUntil included, and leaves
\* a frozen player with now < frozenUntil frozen and unmoved.
C11_UnfreezeAtDeadline ==
    [][lastEvent'.kind = "tick" =>
          \A id \in DOMAIN players :
              players[id].frozen =>
                  IF clock' >= players[id].frozenUntil
                  THEN ~moved'[id].frozen
                  ELSE moved'[id].frozen /\ id \notin DOMAIN stepped']_vars

\* C12: a player still frozen after the unfreeze check keeps its position
\* through the tick and appears in none of the tick's tags.
C12_FrozenSitsOut ==
    [][lastEvent'.kind = "tick" =>
          \A id \in DOMAIN moved' :
              moved'[id].frozen =>
                  /\ players'[id].x = players[id].x
                  /\ players'[id].y = players[id].y
                  /\ \A i \in 1..Len(tagLog') :
                        tagLog'[i].tagger # id /\ tagLog'[i].other # id]_vars

\* C12 witness: a tick passed over a frozen player that holds a movement
\* input and touches the unfrozen tagger.
C12_Witness ==
    /\ lastEvent.kind = "tick"
    /\ \E id \in DOMAIN moved, t \in DOMAIN moved :
          /\ moved[id].frozen
          /\ moved[id].input # NoInput
          /\ moved[t].isTagger /\ ~moved[t].frozen
          /\ checkCollision(moved[t], moved[id])

\* The candidate position of the movement step for player record p: the
\* input deltas at the player's speed, clamped per axis to the viewport.
Candidate(p) ==
    LET speed == IF p.isTagger THEN TAGGER_SPEED ELSE NORMAL_SPEED
        dx == (IF p.input.right THEN speed ELSE 0)
              - (IF p.input.left THEN speed ELSE 0)
        dy == (IF p.input.down THEN speed ELSE 0)
              - (IF p.input.up THEN speed ELSE 0)
    IN  [x |-> Max(PLAYER_SIZE, Min(4 * p.screenWidth - PLAYER_SIZE, p.x + dx)),
         y |-> Max(PLAYER_SIZE, Min(4 * p.screenHeight - PLAYER_SIZE, p.y + dy))]

\* Whether position pos overlaps a wall of the active map for player id.
InWall(ps, map, id, pos) == checkWallCollision(ps, map, pos.x, pos.y, id)

\* C13: the movement step puts a non-frozen player on its candidate when
\* the candidate hits no wall and otherwise leaves both coordinates as
\* they were, so a player clear of walls before the step is clear after.
C13_MoveOrStay ==
    [][lastEvent'.kind = "tick" =>
          \A id \in DOMAIN stepped' :
              /\ stepped'[id] =
                    IF InWall(players, currentMap, id, Candidate(players[id]))
                    THEN [x |-> players[id].x, y |-> players[id].y]
                    ELSE Candidate(players[id])
              /\ ~InWall(players, currentMap, id, players[id])
                    => ~InWall(players, currentMap, id, stepped'[id])]_vars

\* C13 witness: a tick in which a player clear of walls held an input whose
\* candidate hits a wall, and stayed where it was.
C13_Witness ==
    /\ lastEvent.kind = "tick"
    /\ \E id \in DOMAIN stepped :
          LET prev == [moved[id] EXCEPT !.x = stepped[id].x,
                                        !.y = stepped[id].y]
          IN  /\ Candidate(prev).y # prev.y
              /\ InWall(moved, currentMap, id, Candidate(prev))
              /\ ~InWall(moved, currentMap, id, prev)
              /\ PLAYER_SIZE <= prev.y
              /\ prev.y <= 4 * prev.screenHeight - PLAYER_SIZE

\* C14: at the end of every tick every registered player, frozen or not,
\* caches the active map's name and the active map's walls scaled to its
\* current viewport.
C14_CachesFreshAfterTick ==
    lastEvent.kind = "tick" =>
        \A id \in DOMAIN players :
            /\ players[id].map = MapName(currentMap)
            /\ players[id].walls = getWalls(currentMap, players[id].screenWidth,
                                            players[id].screenHeight)

\* C15: a rotation keeps the registry's keys and every field of every
\* player but the position.
C15_RotationKeepsRoles ==
    [][lastEvent'.kind = "rotate" =>
          /\ order' = order
          /\ DOMAIN players' = DOMAIN players
          /\ \A id \in DOMAIN players :
                players'[id] = [players[id] EXCEPT !.x = players'[id].x,
                                                   !.y = players'[id].y]]_vars

\* C15 witness: a rotation with a frozen player, a stored movement input
\* and a tagger in the registry, whose cached map name is now the old one.
C15_Witness ==
    /\ lastEvent.kind = "rotate"
    /\ \E id \in DOMAIN players : players[id].frozen /\ players[id].frozenUntil > 0
    /\ \E id \in DOMAIN players : players[id].input # NoInput
    /\ \E id \in DOMAIN players :
          players[id].isTagger /\ players[id].map # MapName(currentMap)

\* C16: no player is both tagger and frozen.
C16_TaggerNeverFrozen ==
    \A id \in DOMAIN players : players[id].isTagger => ~players[id].frozen

\* C16 witness: a tick tagged a player that had been frozen earlier, next
\* to the player it froze.
C16_Witness ==
    /\ tagLog # << >>
    /\ \E id \in DOMAIN players :
          /\ players[id].isTagger /\ ~players[id].frozen
          /\ players[id].frozenUntil > 0
    /\ \E id \in DOMAIN players : players[id].frozen

\* Whether position pos is the centre of portal number j (1-based) of the
\* portal list scaled to the viewport of player record p.
OnPortal(pos, p, j) ==
    /\ pos.x = getPortals(p.screenWidth, p.screenHeight)[j].x
    /\ pos.y = getPortals(p.screenWidth, p.screenHeight)[j].y

\* Portal number j's target, as a 1-based index.
Linked(j) == getPortals(DEFAULT_WIDTH, DEFAULT_HEIGHT)[j].target + 1

C18_OneSwapPerTick ==
    /\ Len(tagLog) <= 1
    /\ \A i \in 1..Len(tagLog), j \in 1..Len(tagLog) :
          i < j => tagLog[j].tagger # tagLog[i].other

\* C19: every player's position lies within the playable range of its own
\* current viewport.
C19_InsideViewport ==
    \A id \in DOMAIN players :
        /\ PLAYER_SIZE <= players[id].x
        /\ players[id].x <= 4 * players[id].screenWidth - PLAYER_SIZE
        /\ PLAYER_SIZE <= players[id].y
        /\ players[id].y <= 4 * players[id].screenHeight - PLAYER_SIZE

\* Whether player id is registered and frozen.
Frozen(id) == id \in DOMAIN players /\ players[id].frozen

\* Whether the unfreeze check of the last tick found player id unfrozen or
\* unfroze it.
Thawed(id) == id \in DOMAIN moved /\ ~moved[id].frozen

\* C20: nothing extends a freeze (a player that stays frozen, and that no
\* unfreeze check has unfrozen in between, keeps its frozenUntil), and a
\* frozen player that stays connected is unfrozen by an unfreeze check once
\* the ticks have carried the clock past frozenUntil: two ticks, each at
\* least FREEZE_TIME after the one before, are enough.
C20_FrozenEventuallyThaws ==
    /\ [][\A id \in DOMAIN players \cap DOMAIN players' :
             (players[id].frozen /\ players'[id].frozen /\ ~Thawed(id)') =>
                 players'[id].frozenUntil = players[id].frozenUntil]_vars
    /\ \A id \in {IdSeq[i] : i \in 1..LongJoins} :
          (Frozen(id) /\ count.ticks + 2 <= scope.ticks)
              ~> (~Frozen(id) \/ Thawed(id))

\* C20 witness: a tick unfroze a player whose freeze had lasted through a
\* rotation and a client event.
C20_Witness ==
    /\ lastEvent.kind = "tick"
    /\ count.rotations >= 1 /\ count.client >= 1
    /\ \E id \in DOMAIN players :
          /\ ~players[id].frozen /\ ~players[id].isTagger
          /\ players[id].frozenUntil > 0
          /\ players[id].frozenUntil < clock
          /\ id \in DOMAIN stepped

\* Whether the records p1 and p2 differ in viewport width and in viewport
\* height.
OtherViewport(p1, p2) ==
    p1.screenWidth # p2.screenWidth /\ p1.screenHeight # p2.screenHeight

\* C21: the touching test gives the same answer with its arguments
\* exchanged, for every two registered players, before and after the
\* update loop of a tick; and a tick whose update loop leaves one unfrozen
\* tagger and one unfrozen runner records a tag exactly when the runner,
\* taken as the first argument, touches the tagger.
C21_TouchingSymmetric ==
    /\ [](\A a \in DOMAIN players, b \in DOMAIN players :
             checkCollision(players[a], players[b])
                 = checkCollision(players[b], players[a]))
    /\ [](\A a \in DOMAIN moved, b \in DOMAIN moved :
             checkCollision(moved[a], moved[b])
                 = checkCollision(moved[b], moved[a]))
    /\ [][\A t \in DOMAIN moved', o \in DOMAIN moved' :
             (/\ lastEvent'.kind = "tick"
              /\ Cardinality(DOMAIN moved') = 2
              /\ moved'[t].isTagger /\ ~moved'[t].frozen
              /\ ~moved'[o].isTagger /\ ~moved'[o].frozen)
             => (tagLog' # << >> <=> checkCollision(moved'[o], moved'[t]))]_vars

\* C21 witness: a tick recorded a tag between two players whose viewports
\* differ in both dimensions and whose coordinates differ, the tagged
\* player standing before the tagger in the key order.
C21_Witness ==
    /\ lastEvent.kind = "tick"
    /\ Len(tagLog) = 1
    /\ order = <<tagLog[1].other, tagLog[1].tagger>>
    /\ OtherViewport(moved[tagLog[1].tagger], moved[tagLog[1].other])
    /\ moved[tagLog[1].tagger].x # moved[tagLog[1].other].x
    /\ moved[tagLog[1].tagger].y # moved[tagLog[1].other].y

====
